---- MODULE Spec2Model ----
(***************************************************************************)
(* A model of the cross-revision search ("grep") subcommand of r4.py:      *)
(* argument parsing, pattern compilation, the per-file annotate loop with  *)
(* its boundary/end-of-stream flush, and the pure helpers it calls         *)
(* (coalesce_revision_ranges, canonicalize_revision_range,                 *)
(* strip_revision_specifiers).                                             *)
(*                                                                         *)
(* Python strings are sequences of one-character strings.  A Python value  *)
(* whose dynamic type matters (None / int / str) is a record               *)
(* [ty |-> ..., v |-> ...].  A Python dict is a function whose DOMAIN is   *)
(* its key set.                                                            *)
(***************************************************************************)
EXTENDS Integers, Sequences, FiniteSets, TLC

VARIABLES
    argv,                \* sys.argv[2:], the arguments of the grep command
    pc,                  \* position of the process
    exc,                 \* the exception in flight ("none" when there is none)
    exit_status,         \* the process's exit status (-1 while it runs)
    stdout,              \* sequence of strings written to standard output
    stderr,              \* sequence of diagnostics written to standard error
    case_sensitive,      \* R4Grep.run locals
    just_list_filenames,
    invert_matches,
    args,
    regexp,
    files,
    got_match,
    match_ranges,
    path,
    fidx,                \* number of file arguments the for loop has taken
    streams,             \* per fetched file argument, the records read so far
    failedAt,            \* index of the file argument whose fetch failed, or 0
    c_num,               \* coalescer call: the ranges as pairs of numbers
    c_repr,              \* coalescer call: "int" or "str" representation
    c_out,               \* coalescer call: the value returned
    c_done,              \* coalescer call: has returned
    c_again,             \* the coalescer called on its own result
    f_in,                \* formatter call: <<lower, upper, representation>>
    f_out,               \* formatter call: the value returned, or None
    s_in,                \* path-stripping call: the path
    s_out                \* path-stripping call: the value returned, or None

vars == <<argv, pc, exc, exit_status, stdout, stderr, case_sensitive,
          just_list_filenames, invert_matches, args, regexp, files,
          got_match, match_ranges, path, fidx, streams, failedAt,
          c_num, c_repr, c_out, c_done, c_again, f_in, f_out, s_in, s_out>>

grepVars == <<argv, pc, exc, exit_status, stdout, stderr, case_sensitive,
              just_list_filenames, invert_matches, args, regexp, files,
              got_match, match_ranges, path, fidx, streams, failedAt>>

coalesceVars == <<c_num, c_repr, c_out, c_done, c_again>>

formatVars == <<f_in, f_out>>

stripVars == <<s_in, s_out>>

pureVars == <<coalesceVars, formatVars, stripVars>>

----------------------------------------------------------------------------
(* Bounds *)

MaxFiles == 2       \* file arguments on the command line
MaxRecs == 3        \* annotate records read in one run, all streams together
MaxRev == 3         \* largest revision number given to a coalescer call
MaxRanges == 2      \* ranges given to a coalescer call
MaxFmtRev == 11     \* largest revision number given to a formatter call
MaxPathLen == 4     \* longest path given to a path-stripping call

----------------------------------------------------------------------------
(* Python values *)

PyNone == [ty |-> "None", v |-> 0]
PyInt(n) == [ty |-> "int", v |-> n]
PyStr(s) == [ty |-> "str", v |-> s]

\* Python truth value: None, 0 and '' are false.
Truthy(x) ==
    CASE x.ty = "None" -> FALSE
      [] x.ty = "int" -> x.v # 0
      [] OTHER -> x.v # <<>>

DigitChars == <<"0", "1", "2", "3", "4", "5", "6", "7", "8", "9">>

DigitVal(c) == (CHOOSE d \in 1..10 : DigitChars[d] = c) - 1

RECURSIVE ParseDecimal(_, _)
ParseDecimal(s, acc) ==
    IF s = <<>> THEN acc ELSE ParseDecimal(Tail(s), acc * 10 + DigitVal(Head(s)))

RECURSIVE Decimal(_)
Decimal(n) ==
    IF n < 10 THEN <<DigitChars[n + 1]>>
    ELSE Decimal(n \div 10) \o <<DigitChars[(n % 10) + 1]>>

\* int(x) for an int or a decimal string.
int(x) == IF x.ty = "int" THEN x.v ELSE ParseDecimal(x.v, 0)

\* '%s' % (x,)
str(x) ==
    CASE x.ty = "None" -> <<"N", "o", "n", "e">>
      [] x.ty = "int" -> Decimal(x.v)
      [] OTHER -> x.v

----------------------------------------------------------------------------
(* coalesce_revision_ranges *)

\* The first loop: the largest upper bound (None for no ranges).
RECURSIVE MaxUpper(_, _, _)
MaxUpper(ranges, i, max_r) ==
    IF i > Len(ranges) THEN max_r
    ELSE LET r == int(ranges[i][2])
         IN  MaxUpper(ranges, i + 1,
                      IF ~Truthy(max_r) \/ r > max_r.v THEN PyInt(r) ELSE max_r)

\* Bitmap marking range(int(l), int(r)): the upper revision is left out.
Bitmap_HalfOpen(ranges, max_r) ==
    [p \in 1..(max_r + 1) |->
        \E k \in 1..Len(ranges) :
            int(ranges[k][1]) <= p - 1 /\ p - 1 < int(ranges[k][2])]

\* The bitmap after the marking loops; revisions[p + 1] is Python's revisions[p].
Bitmap(ranges, max_r) ==
    [p \in 1..(max_r + 1) |->
        \E k \in 1..Len(ranges) :
            int(ranges[k][1]) <= p - 1 /\ p - 1 <= int(ranges[k][2])]

\* ScanBitmap closing a range one position late (pos instead of pos - 1).
RECURSIVE ScanBitmap_LateClose(_, _, _, _)
ScanBitmap_LateClose(revisions, pos, start_l, new_ranges) ==
    IF pos >= Len(revisions)
    THEN IF Truthy(start_l)
         THEN Append(new_ranges, <<start_l, PyInt(pos - 1)>>)
         ELSE new_ranges
    ELSE LET state == revisions[pos + 1]
             closes == Truthy(start_l) /\ state = FALSE
             ranges1 == IF closes
                        THEN Append(new_ranges, <<start_l, PyInt(pos)>>)
                        ELSE new_ranges
             start1 == IF closes THEN PyNone ELSE start_l
             start2 == IF ~Truthy(start1) /\ state = TRUE THEN PyInt(pos) ELSE start1
         IN  ScanBitmap_LateClose(revisions, pos + 1, start2, ranges1)

\* The scanning loop and the statement after it.
RECURSIVE ScanBitmap(_, _, _, _)
ScanBitmap(revisions, pos, start_l, new_ranges) ==
    IF pos >= Len(revisions)
    THEN IF Truthy(start_l)
         THEN Append(new_ranges, <<start_l, PyInt(pos - 1)>>)
         ELSE new_ranges
    ELSE LET state == revisions[pos + 1]
             closes == Truthy(start_l) /\ state = FALSE
             ranges1 == IF closes
                        THEN Append(new_ranges, <<start_l, PyInt(pos - 1)>>)
                        ELSE new_ranges
             start1 == IF closes THEN PyNone ELSE start_l
             start2 == IF ~Truthy(start1) /\ state = TRUE THEN PyInt(pos) ELSE start1
         IN  ScanBitmap(revisions, pos + 1, start2, ranges1)

\* max_r + 1 with max_r = None is a TypeError.
coalesce_raises(ranges) == MaxUpper(ranges, 1, PyNone).ty = "None"

coalesce_revision_ranges(ranges) ==
    LET max_r == MaxUpper(ranges, 1, PyNone)
    IN  ScanBitmap(Bitmap(ranges, max_r.v), 0, PyNone, <<>>)

----------------------------------------------------------------------------
(* A call of the coalescer on its own *)

NumRanges == {q \in (0..MaxRev) \X (0..MaxRev) : q[1] <= q[2]}

RECURSIVE SeqsUpTo(_, _)
SeqsUpTo(S, n) ==
    IF n = 0 THEN {<<>>}
    ELSE LET shorter == SeqsUpTo(S, n - 1)
         IN  shorter \cup {Append(s, x) : s \in shorter, x \in S}

\* The ranges as the caller passes them: pairs of ints, or pairs of decimal
\* strings as the annotate records carry them.
AsPy(n, repr) == IF repr = "int" THEN PyInt(n) ELSE PyStr(Decimal(n))

PyRanges(num, repr) ==
    [k \in 1..Len(num) |-> <<AsPy(num[k][1], repr), AsPy(num[k][2], repr)>>]

c_in == PyRanges(c_num, c_repr)

GrepIdle ==
    /\ argv = <<>>
    /\ pc = "idle"
    /\ exc = "none"
    /\ exit_status = -1
    /\ stdout = <<>>
    /\ stderr = <<>>
    /\ case_sensitive = TRUE
    /\ just_list_filenames = FALSE
    /\ invert_matches = FALSE
    /\ args = <<>>
    /\ regexp = PyNone
    /\ files = <<>>
    /\ got_match = FALSE
    /\ match_ranges = <<>>
    /\ path = PyNone
    /\ fidx = 0
    /\ streams = <<>>
    /\ failedAt = 0

NotCalledAgain == [done |-> FALSE, raised |-> FALSE, out |-> <<>>]

CoalesceIdle ==
    /\ c_num = <<>>
    /\ c_repr = "int"
    /\ c_out = <<>>
    /\ c_done = FALSE
    /\ c_again = NotCalledAgain

FormatIdle ==
    /\ f_in = <<>>
    /\ f_out = PyNone

StripIdle ==
    /\ s_in = <<>>
    /\ s_out = PyNone

PureIdle == CoalesceIdle /\ FormatIdle /\ StripIdle

InitCoalesce ==
    /\ GrepIdle
    /\ FormatIdle
    /\ StripIdle
    /\ c_num \in SeqsUpTo(NumRanges, MaxRanges) \ {<<>>}
    /\ c_repr \in {"int", "str"}
    /\ c_out = <<>>
    /\ c_done = FALSE
    /\ c_again = NotCalledAgain

CoalesceCall ==
    /\ ~c_done
    /\ ~coalesce_raises(c_in)
    /\ c_out' = coalesce_revision_ranges(c_in)
    /\ c_done' = TRUE
    /\ UNCHANGED <<c_num, c_repr, c_again>>
    /\ UNCHANGED <<grepVars, formatVars, stripVars>>

\* coalesce_revision_ranges called on the list it returned.
CoalesceAgain ==
    /\ c_done
    /\ ~c_again.done
    /\ c_again' = IF coalesce_raises(c_out)
                  THEN [done |-> TRUE, raised |-> TRUE, out |-> <<>>]
                  ELSE [done |-> TRUE, raised |-> FALSE,
                        out |-> coalesce_revision_ranges(c_out)]
    /\ UNCHANGED <<c_num, c_repr, c_out, c_done>>
    /\ UNCHANGED <<grepVars, formatVars, stripVars>>

NextCoalesce == CoalesceCall \/ CoalesceAgain

SpecCoalesce == InitCoalesce /\ [][NextCoalesce]_vars

----------------------------------------------------------------------------
(* canonicalize_revision_range, strip_revision_specifiers *)

\* Python's == on two values.
PyEq(a, b) == a.ty = b.ty /\ a.v = b.v

\* canonicalize_revision_range never collapsing a degenerate range.
canonicalize_revision_range_NoCollapse(lower, upper) ==
    <<"#">> \o str(lower) \o <<",">> \o str(upper)

canonicalize_revision_range(lower, upper) ==
    IF PyEq(upper, lower)
    THEN <<"#">> \o str(lower)
    ELSE <<"#">> \o str(lower) \o <<",">> \o str(upper)

\* rfind taking the first occurrence, as s.find(c) does.
rfind_First(s, c) ==
    LET found == {i \in 1..Len(s) : s[i] = c}
    IN  IF found = {} THEN -1
        ELSE (CHOOSE i \in found : \A j \in found : i <= j) - 1

\* s.rfind(c): the greatest 0-based index of c in s, or -1.
rfind(s, c) ==
    LET found == {i \in 1..Len(s) : s[i] = c}
    IN  IF found = {} THEN -1
        ELSE (CHOOSE i \in found : \A j \in found : j <= i) - 1

strip_revision_specifiers(p) ==
    LET at_pos == rfind(p, "@")
        hash_pos == rfind(p, "#")
    IN  IF at_pos # -1 THEN SubSeq(p, 1, at_pos)
        ELSE IF hash_pos # -1 THEN SubSeq(p, 1, hash_pos)
        ELSE p

----------------------------------------------------------------------------
(* A call of the formatter, and a call of the path stripping, on their own *)

InitFormat ==
    /\ GrepIdle
    /\ CoalesceIdle
    /\ StripIdle
    /\ f_in \in (0..MaxFmtRev) \X (0..MaxFmtRev) \X {"int", "str"}
    /\ f_out = PyNone

FormatCall ==
    /\ f_out = PyNone
    /\ f_out' = PyStr(canonicalize_revision_range(AsPy(f_in[1], f_in[3]),
                                                  AsPy(f_in[2], f_in[3])))
    /\ UNCHANGED <<f_in, grepVars, coalesceVars, stripVars>>

NextFormat == FormatCall

SpecFormat == InitFormat /\ [][NextFormat]_vars

PathChars == {"f", "@", "#"}

InitStrip ==
    /\ GrepIdle
    /\ CoalesceIdle
    /\ FormatIdle
    /\ s_in \in SeqsUpTo(PathChars, MaxPathLen)
    /\ s_out = PyNone

StripCall ==
    /\ s_out = PyNone
    /\ s_out' = PyStr(strip_revision_specifiers(s_in))
    /\ UNCHANGED <<s_in, grepVars, coalesceVars, formatVars>>

NextStrip == StripCall

SpecStrip == InitStrip /\ [][NextStrip]_vars

----------------------------------------------------------------------------
(* getopt.getopt(args, 'ilv', ['ignore-case', 'files-with-matches',        *)
(* 'invert-match']) as R4Grep.run calls it                                 *)

StartsWith(s, prefix) ==
    Len(s) >= Len(prefix) /\ SubSeq(s, 1, Len(prefix)) = prefix

ShortOptions == {"i", "l", "v"}

LongIgnoreCase == <<"i", "g", "n", "o", "r", "e", "-", "c", "a", "s", "e">>
LongFilesWithMatches == <<"f", "i", "l", "e", "s", "-", "w", "i", "t", "h", "-",
                          "m", "a", "t", "c", "h", "e", "s">>
LongInvertMatch == <<"i", "n", "v", "e", "r", "t", "-", "m", "a", "t", "c", "h">>

LongOptions == {LongIgnoreCase, LongFilesWithMatches, LongInvertMatch}

\* do_shorts: every character of a short-option cluster must be in 'ilv'.
RECURSIVE DoShorts(_, _)
DoShorts(optstring, opts) ==
    IF optstring = <<>> THEN [err |-> FALSE, opts |-> opts]
    ELSE IF Head(optstring) \notin ShortOptions THEN [err |-> TRUE, opts |-> opts]
    ELSE DoShorts(Tail(optstring), Append(opts, <<"-", Head(optstring)>>))

\* do_longs: the name must be one of the long options or a unique prefix of one.
DoLongs(name, opts) ==
    LET possibilities == {o \in LongOptions : StartsWith(o, name)}
    IN  IF possibilities = {} THEN [err |-> TRUE, opts |-> opts]
        ELSE IF name \in possibilities
             THEN [err |-> FALSE, opts |-> Append(opts, <<"-", "-">> \o name)]
        ELSE IF Cardinality(possibilities) > 1 THEN [err |-> TRUE, opts |-> opts]
        ELSE [err |-> FALSE,
              opts |-> Append(opts, <<"-", "-">> \o (CHOOSE o \in possibilities : TRUE))]

\* The option loop: stops at the first argument that is not an option.
RECURSIVE Getopt(_, _)
Getopt(rest, opts) ==
    IF rest = <<>> \/ ~StartsWith(rest[1], <<"-">>) \/ rest[1] = <<"-">>
    THEN [err |-> FALSE, opts |-> opts, args |-> rest]
    ELSE IF rest[1] = <<"-", "-">>
    THEN [err |-> FALSE, opts |-> opts, args |-> Tail(rest)]
    ELSE LET r == IF StartsWith(rest[1], <<"-", "-">>)
                  THEN DoLongs(SubSeq(rest[1], 3, Len(rest[1])), opts)
                  ELSE DoShorts(Tail(rest[1]), opts)
         IN  IF r.err THEN [err |-> TRUE, opts |-> r.opts, args |-> rest]
             ELSE Getopt(Tail(rest), r.opts)

HasOption(opts, names) == \E k \in 1..Len(opts) : opts[k] \in names

----------------------------------------------------------------------------
(* re.compile and regexp.search for the patterns of the model: a pattern   *)
(* without metacharacters matches where it occurs as a substring; an       *)
(* unbalanced parenthesis is a syntax error.                               *)

Count(s, c) == Cardinality({i \in 1..Len(s) : s[i] = c})

re_compile_raises(regex) == Count(regex, "(") # Count(regex, ")")

LowerCase(c) == IF c = "A" THEN "a" ELSE IF c = "B" THEN "b" ELSE c

Fold(s, ignorecase) == IF ignorecase THEN [i \in 1..Len(s) |-> LowerCase(s[i])] ELSE s

regexp_search(compiled, data) ==
    LET pat == Fold(compiled.pattern, compiled.ignorecase)
        txt == Fold(data, compiled.ignorecase)
    IN  \E i \in 1..(Len(txt) - Len(pat) + 1) : SubSeq(txt, i, i + Len(pat) - 1) = pat

----------------------------------------------------------------------------
(* The inputs of a run *)

GoodPattern == <<"a">>
BadPattern == <<"(">>

FileName(i) == <<"f", DigitChars[i + 1]>>

OptionLists ==
    { <<>>,
      << <<"-", "l">> >>,
      << <<"-", "v">> >>,
      << <<"-", "-">> \o LongFilesWithMatches, <<"-", "v">> >>,
      << <<"-", "i", "v">> >>,
      << <<"-", "x">> >>,
      << <<"-", "l">>, <<"-", "-", "i">> >> }

PositionalLists ==
    { <<>>, <<GoodPattern, <<"-", "x">> >> } \cup
    { <<pat>> \o [i \in 1..n |-> FileName(i)] :
        pat \in {GoodPattern, BadPattern}, n \in 0..MaxFiles }

ArgvChoices == {o \o p : o \in OptionLists, p \in PositionalLists}

\* The records p4 annotate -a returns: file boundaries and lines, and one
\* record of neither shape.
DepotFiles == { <<"/", "/", "x">>, <<"/", "/", "y", "#", "2">> }
LineRanges == { << <<"1">>, <<"1">> >>, << <<"2">>, <<"2">> >>, << <<"4">>, <<"5">> >> }
Texts == { <<"a", "\n">>, <<"A", "\n">> }

FileRecords == {[depotFile |-> d] : d \in DepotFiles}
LineRecords == {[lower |-> r[1], upper |-> r[2], data |-> t] : r \in LineRanges, t \in Texts}
MalformedRecords == {[junk |-> <<>>]}

AnnotateRecords == FileRecords \cup LineRecords \cup MalformedRecords

RECURSIVE TotalLen(_)
TotalLen(ss) == IF ss = <<>> THEN 0 ELSE Len(Head(ss)) + TotalLen(Tail(ss))

----------------------------------------------------------------------------
(* The process: __main__, R4Command.run_command, R4Grep.run *)

Init ==
    /\ argv \in ArgvChoices
    /\ pc = "main"
    /\ exc = "none"
    /\ exit_status = -1
    /\ stdout = <<>>
    /\ stderr = <<>>
    /\ case_sensitive = TRUE
    /\ just_list_filenames = FALSE
    /\ invert_matches = FALSE
    /\ args = <<>>
    /\ regexp = PyNone
    /\ files = <<>>
    /\ got_match = FALSE
    /\ match_ranges = <<>>
    /\ path = PyNone
    /\ fidx = 0
    /\ streams = <<>>
    /\ failedAt = 0
    /\ PureIdle

runLocals == <<case_sensitive, just_list_filenames, invert_matches, args, regexp,
               files, got_match, match_ranges, path, fidx, streams, failedAt>>

\* __main__: get_p4_connection() succeeds and the grep command is dispatched.
Connect ==
    /\ pc = "main"
    /\ pc' = "run"
    /\ UNCHANGED <<argv, exc, exit_status, stdout, stderr, runLocals, pureVars>>

\* __main__: p4.connect() raises.
ConnectFails ==
    /\ pc = "main"
    /\ pc' = "raised"
    /\ exc' = "P4Exception"
    /\ UNCHANGED <<argv, exit_status, stdout, stderr, runLocals, pureVars>>

\* R4Grep.run up to the arity check.
ParseArgs ==
    /\ pc = "run"
    /\ LET g == Getopt(argv, <<>>)
       IN  IF g.err
           THEN /\ exc' = "GetoptError"
                /\ pc' = "raised"
                /\ UNCHANGED <<case_sensitive, just_list_filenames, invert_matches, args>>
           ELSE /\ case_sensitive' =
                      ~HasOption(g.opts, {<<"-", "i">>, <<"-", "-">> \o LongIgnoreCase})
                /\ just_list_filenames' =
                      HasOption(g.opts, {<<"-", "l">>, <<"-", "-">> \o LongFilesWithMatches})
                /\ invert_matches' =
                      HasOption(g.opts, {<<"-", "v">>, <<"-", "-">> \o LongInvertMatch})
                /\ args' = g.args
                /\ IF Len(g.args) < 2
                   THEN exc' = "MissingOrWrongArguments" /\ pc' = "raised"
                   ELSE exc' = exc /\ pc' = "compile"
    /\ UNCHANGED <<argv, exit_status, stdout, stderr, regexp, files, got_match,
                   match_ranges, path, fidx, streams, failedAt, pureVars>>

\* Compile leaving the pattern's syntax unchecked until it is first used.
Compile_Lazy ==
    /\ pc = "compile"
    /\ files' = Tail(args)
    /\ regexp' = [ty |-> "regex", pattern |-> args[1], ignorecase |-> ~case_sensitive]
    /\ got_match' = FALSE
    /\ match_ranges' = <<>>
    /\ path' = PyNone
    /\ pc' = "loop"
    /\ UNCHANGED <<argv, exc, exit_status, stdout, stderr, case_sensitive,
                   just_list_filenames, invert_matches, args, fidx, streams,
                   failedAt, pureVars>>

\* R4Grep.run from the arity check to the loop over the files.
Compile ==
    /\ pc = "compile"
    /\ LET regex == args[1]
       IN  /\ files' = Tail(args)
           /\ IF re_compile_raises(regex)
              THEN /\ exc' = "re.error"
                   /\ pc' = "raised"
                   /\ UNCHANGED <<regexp, got_match, match_ranges, path>>
              ELSE /\ regexp' = [ty |-> "regex", pattern |-> regex,
                                 ignorecase |-> ~case_sensitive]
                   /\ got_match' = FALSE
                   /\ match_ranges' = <<>>
                   /\ path' = PyNone
                   /\ exc' = exc
                   /\ pc' = "loop"
    /\ UNCHANGED <<argv, exit_status, stdout, stderr, case_sensitive,
                   just_list_filenames, invert_matches, args, fidx, streams,
                   failedAt, pureVars>>

\* The for loop takes the next file and p4.run_annotate returns its stream.
Fetch ==
    /\ pc = "loop"
    /\ fidx < Len(files)
    /\ fidx' = fidx + 1
    /\ streams' = Append(streams, <<>>)
    /\ pc' = "scan"
    /\ UNCHANGED <<argv, exc, exit_status, stdout, stderr, case_sensitive,
                   just_list_filenames, invert_matches, args, regexp, files,
                   got_match, match_ranges, path, failedAt, pureVars>>

\* FetchFails with the error swallowed: the loop goes on to the next file.
FetchFails_Skip ==
    /\ pc = "loop"
    /\ fidx < Len(files)
    /\ fidx' = fidx + 1
    /\ failedAt' = fidx + 1
    /\ UNCHANGED <<argv, pc, exc, exit_status, stdout, stderr, case_sensitive,
                   just_list_filenames, invert_matches, args, regexp, files,
                   got_match, match_ranges, path, streams, pureVars>>

\* The for loop takes the next file and p4.run_annotate raises.
FetchFails ==
    /\ pc = "loop"
    /\ fidx < Len(files)
    /\ fidx' = fidx + 1
    /\ failedAt' = fidx + 1
    /\ exc' = "P4Exception"
    /\ pc' = "raised"
    /\ UNCHANGED <<argv, exit_status, stdout, stderr, case_sensitive,
                   just_list_filenames, invert_matches, args, regexp, files,
                   got_match, match_ranges, path, streams, pureVars>>

\* "Finish up the previous file": the lines the flush prints.
FlushLines ==
    IF Truthy(path) /\ just_list_filenames /\ got_match
    THEN LET covering == coalesce_revision_ranges(match_ranges)
         IN  [k \in 1..Len(covering) |->
                 str(path) \o canonicalize_revision_range(covering[k][1], covering[k][2])
                 \o <<"\n">>]
    ELSE <<>>

FlushRaises ==
    Truthy(path) /\ just_list_filenames /\ got_match /\ coalesce_raises(match_ranges)

\* FileRecord keeping the raw path, revision specifier included.
FileRecord_NoStrip(line) ==
    /\ pc = "scan"
    /\ TotalLen(streams) < MaxRecs
    /\ "depotFile" \in DOMAIN line
    /\ streams' = [streams EXCEPT ![fidx] = Append(@, line)]
    /\ IF FlushRaises
       THEN /\ exc' = "TypeError"
            /\ pc' = "raised"
            /\ UNCHANGED <<stdout, got_match, match_ranges, path>>
       ELSE /\ stdout' = stdout \o FlushLines
            /\ got_match' = FALSE
            /\ match_ranges' = <<>>
            /\ path' = PyStr(line.depotFile)
            /\ UNCHANGED <<exc, pc>>
    /\ UNCHANGED <<argv, exit_status, stderr, case_sensitive, just_list_filenames,
                   invert_matches, args, regexp, files, fidx, failedAt, pureVars>>

\* FileRecord emptying match_ranges and leaving got_match as it was.
FileRecord_KeepGotMatch(line) ==
    /\ pc = "scan"
    /\ TotalLen(streams) < MaxRecs
    /\ "depotFile" \in DOMAIN line
    /\ streams' = [streams EXCEPT ![fidx] = Append(@, line)]
    /\ IF FlushRaises
       THEN /\ exc' = "TypeError"
            /\ pc' = "raised"
            /\ UNCHANGED <<stdout, got_match, match_ranges, path>>
       ELSE /\ stdout' = stdout \o FlushLines
            /\ match_ranges' = <<>>
            /\ path' = PyStr(strip_revision_specifiers(line.depotFile))
            /\ UNCHANGED <<exc, pc, got_match>>
    /\ UNCHANGED <<argv, exit_status, stderr, case_sensitive, just_list_filenames,
                   invert_matches, args, regexp, files, fidx, failedAt, pureVars>>

\* The inner loop takes a record with 'depotFile'.
FileRecord(line) ==
    /\ pc = "scan"
    /\ TotalLen(streams) < MaxRecs
    /\ "depotFile" \in DOMAIN line
    /\ streams' = [streams EXCEPT ![fidx] = Append(@, line)]
    /\ IF FlushRaises
       THEN /\ exc' = "TypeError"
            /\ pc' = "raised"
            /\ UNCHANGED <<stdout, got_match, match_ranges, path>>
       ELSE /\ stdout' = stdout \o FlushLines
            /\ got_match' = FALSE
            /\ match_ranges' = <<>>
            /\ path' = PyStr(strip_revision_specifiers(line.depotFile))
            /\ UNCHANGED <<exc, pc>>
    /\ UNCHANGED <<argv, exit_status, stderr, case_sensitive, just_list_filenames,
                   invert_matches, args, regexp, files, fidx, failedAt, pureVars>>

\* re_matches with the inversion flag ignored.
re_matches_NoInvert(data) == regexp_search(regexp, data)

\* The effective predicate on a line's text.
re_matches(data) ==
    IF invert_matches THEN ~regexp_search(regexp, data) ELSE regexp_search(regexp, data)

\* LineRecord writing the matching line at once in list mode too.
LineRecord_PrintAlways(line) ==
    /\ pc = "scan"
    /\ TotalLen(streams) < MaxRecs
    /\ "depotFile" \notin DOMAIN line
    /\ {"data", "lower", "upper"} \subseteq DOMAIN line
    /\ streams' = [streams EXCEPT ![fidx] = Append(@, line)]
    /\ IF re_matches(line.data)
       THEN /\ stdout' = Append(stdout,
                   str(path)
                   \o canonicalize_revision_range(PyStr(line.lower), PyStr(line.upper))
                   \o <<":", " ">> \o line.data)
            /\ UNCHANGED <<got_match, match_ranges>>
       ELSE UNCHANGED <<stdout, got_match, match_ranges>>
    /\ UNCHANGED <<argv, pc, exc, exit_status, stderr, case_sensitive,
                   just_list_filenames, invert_matches, args, regexp, files, path,
                   fidx, failedAt, pureVars>>

\* The inner loop takes a record without 'depotFile' that has 'data',
\* 'lower' and 'upper'.
LineRecord(line) ==
    /\ pc = "scan"
    /\ TotalLen(streams) < MaxRecs
    /\ "depotFile" \notin DOMAIN line
    /\ {"data", "lower", "upper"} \subseteq DOMAIN line
    /\ streams' = [streams EXCEPT ![fidx] = Append(@, line)]
    /\ IF re_matches(line.data)
       THEN IF just_list_filenames
            THEN /\ got_match' = TRUE
                 /\ match_ranges' = Append(match_ranges,
                                           <<PyStr(line.lower), PyStr(line.upper)>>)
                 /\ UNCHANGED stdout
            ELSE /\ stdout' = Append(stdout,
                        str(path)
                        \o canonicalize_revision_range(PyStr(line.lower), PyStr(line.upper))
                        \o <<":", " ">> \o line.data)
                 /\ UNCHANGED <<got_match, match_ranges>>
       ELSE UNCHANGED <<stdout, got_match, match_ranges>>
    /\ UNCHANGED <<argv, pc, exc, exit_status, stderr, case_sensitive,
                   just_list_filenames, invert_matches, args, regexp, files, path,
                   fidx, failedAt, pureVars>>

\* The inner loop takes a record with neither 'depotFile' nor 'data':
\* line['data'] raises KeyError.
MalformedRecord(line) ==
    /\ pc = "scan"
    /\ TotalLen(streams) < MaxRecs
    /\ "depotFile" \notin DOMAIN line
    /\ "data" \notin DOMAIN line
    /\ streams' = [streams EXCEPT ![fidx] = Append(@, line)]
    /\ exc' = "KeyError"
    /\ pc' = "raised"
    /\ UNCHANGED <<argv, exit_status, stdout, stderr, case_sensitive,
                   just_list_filenames, invert_matches, args, regexp, files,
                   got_match, match_ranges, path, fidx, failedAt, pureVars>>

\* The inner loop is exhausted: the flush after it, then back to the for loop.
EndOfStream ==
    /\ pc = "scan"
    /\ IF FlushRaises
       THEN /\ exc' = "TypeError"
            /\ pc' = "raised"
            /\ UNCHANGED stdout
       ELSE /\ stdout' = stdout \o FlushLines
            /\ pc' = "loop"
            /\ UNCHANGED exc
    /\ UNCHANGED <<argv, exit_status, stderr, runLocals, pureVars>>

\* Return leaving the loop after any file's stream, not only the last.
Return_Early ==
    /\ pc = "loop"
    /\ fidx >= 1
    /\ pc' = "exited"
    /\ exit_status' = 0
    /\ UNCHANGED <<argv, exc, stdout, stderr, runLocals, pureVars>>

\* The for loop is exhausted: run returns None and sys.exit(None) exits with 0.
Return ==
    /\ pc = "loop"
    /\ fidx = Len(files)
    /\ pc' = "exited"
    /\ exit_status' = 0
    /\ UNCHANGED <<argv, exc, stdout, stderr, runLocals, pureVars>>

\* RunCommandExcept with print_usage left at its default stream, stdout.
RunCommandExcept_UsageToStdout ==
    /\ pc = "raised"
    /\ exc \in {"MissingOrWrongArguments", "GetoptError"}
    /\ stdout' = Append(stdout, <<"U", "s", "a", "g", "e">>)
    /\ stderr' = stderr \o <<"Usage", exc>>
    /\ exc' = "none"
    /\ pc' = "exited"
    /\ exit_status' = 0
    /\ UNCHANGED <<argv, runLocals, pureVars>>

\* R4Command.run_command's except clauses: usage and a message on stderr;
\* run_command then returns None and sys.exit(None) exits with 0.
RunCommandExcept ==
    /\ pc = "raised"
    /\ exc \in {"MissingOrWrongArguments", "GetoptError"}
    /\ stderr' = stderr \o <<"Usage", exc>>
    /\ exc' = "none"
    /\ pc' = "exited"
    /\ exit_status' = 0
    /\ UNCHANGED <<argv, stdout, runLocals, pureVars>>

\* __main__'s except clause: the message on stderr and sys.exit(1).
MainExcept ==
    /\ pc = "raised"
    /\ exc = "P4Exception"
    /\ stderr' = Append(stderr, exc)
    /\ exc' = "none"
    /\ pc' = "exited"
    /\ exit_status' = 1
    /\ UNCHANGED <<argv, stdout, runLocals, pureVars>>

\* No except clause takes the exception: the interpreter prints the
\* traceback and exits with 1.
Uncaught ==
    /\ pc = "raised"
    /\ exc \notin {"MissingOrWrongArguments", "GetoptError", "P4Exception"}
    /\ stderr' = stderr \o <<"Traceback", exc>>
    /\ pc' = "exited"
    /\ exit_status' = 1
    /\ UNCHANGED <<argv, exc, stdout, runLocals, pureVars>>

Next ==
    \/ Connect
    \/ ConnectFails
    \/ ParseArgs
    \/ Compile
    \/ Fetch
    \/ FetchFails
    \/ \E line \in AnnotateRecords : FileRecord(line)
    \/ \E line \in AnnotateRecords : LineRecord(line)
    \/ \E line \in AnnotateRecords : MalformedRecord(line)
    \/ EndOfStream
    \/ Return
    \/ RunCommandExcept
    \/ MainExcept
    \/ Uncaught

Spec == Init /\ [][Next]_vars

\* The steps of the sequential program other than the inner loop's: the
\* interpreter goes on to the next statement, and every call returns.
Advance ==
    \/ Connect
    \/ ConnectFails
    \/ ParseArgs
    \/ Compile
    \/ Fetch
    \/ FetchFails
    \/ Return
    \/ RunCommandExcept
    \/ MainExcept
    \/ Uncaught

\* The inner loop leaves the current stream: run_annotate returns a finite
\* list, so the for loop over it ends, by exhaustion or by an exception.
StreamEnds == pc = "scan" /\ pc' \in {"loop", "raised"}

SpecFair == Spec /\ WF_vars(Advance) /\ WF_pc(StreamEnds)

----------------------------------------------------------------------------
(* Properties of a coalescer call *)

\* The integer points the input ranges cover, and those the result covers.
InPoints == {p \in 0..(MaxRev + 1) :
                \E k \in 1..Len(c_num) : c_num[k][1] <= p /\ p <= c_num[k][2]}

OutPoints == {p \in 0..(MaxRev + 1) :
                \E k \in 1..Len(c_out) : c_out[k][1].v <= p /\ p <= c_out[k][2].v}

\* The number of maximal runs of consecutive points of a set.
Runs(S) == Cardinality({p \in S : p - 1 \notin S})

\* C2: for every non-empty sequence of valid ranges (0 <= lower <= upper,
\* revision 0 included) the result of coalesce_revision_ranges covers exactly
\* the integer points the input covers.
C2_CoverageExact == c_done => OutPoints = InPoints

\* C3: the result of coalesce_revision_ranges is sorted strictly ascending by
\* lower, every range has lower <= upper, consecutive ranges are neither
\* overlapping nor adjacent, it never has more ranges than the input has
\* maximal runs, and the two documented examples give the documented results.
C3_SortedMaximal ==
    /\ c_done =>
        /\ \A k \in 1..Len(c_out) :
              /\ c_out[k][1].ty = "int" /\ c_out[k][2].ty = "int"
              /\ c_out[k][1].v <= c_out[k][2].v
        /\ \A k \in 1..(Len(c_out) - 1) :
              /\ c_out[k][1].v < c_out[k + 1][1].v
              /\ c_out[k][2].v + 1 < c_out[k + 1][1].v
        /\ Len(c_out) <= Runs(InPoints)
    /\ coalesce_revision_ranges(PyRanges(<<<<1, 1>>, <<2, 2>>, <<3, 3>>, <<5, 9>>>>, c_repr))
         = PyRanges(<<<<1, 3>>, <<5, 9>>>>, "int")
    /\ coalesce_revision_ranges(PyRanges(<<<<1, 10>>, <<11, 13>>>>, c_repr))
         = PyRanges(<<<<1, 13>>>>, "int")

\* A sequence of ranges as the coalescer returns one: ascending, no two
\* overlapping or adjacent.
AlreadyCoalesced(num) ==
    \A k \in 1..(Len(num) - 1) : num[k][2] + 1 < num[k + 1][1]

\* C11: coalescing is idempotent: an already-coalesced sequence of valid
\* ranges (lower >= 0) is returned as it is, and coalescing the result of a
\* call succeeds and returns the same result.
C11_Idempotent ==
    /\ (c_done /\ AlreadyCoalesced(c_num)) => c_out = PyRanges(c_num, "int")
    /\ c_again.done => (~c_again.raised /\ c_again.out = c_out)

\* A call given two adjacent ranges as decimal strings, second one first,
\* that returned the one range covering both.
C3_Witness ==
    /\ c_done
    /\ c_repr = "str"
    /\ Len(c_num) = 2
    /\ c_num[1][1] = c_num[2][2] + 1
    /\ c_num[2][1] >= 1
    /\ Len(c_out) = 1

----------------------------------------------------------------------------
(* What the input of a run is, stated on argv and on the records read *)

\* An argument the option loop takes as an option.
IsOptionToken(t) == Len(t) >= 2 /\ t[1] = "-" /\ t # <<"-", "-">>

\* The number of leading option arguments.
LeadingOptions(a) ==
    CHOOSE k \in 0..Len(a) :
        /\ \A i \in 1..k : IsOptionToken(a[i])
        /\ k < Len(a) => ~IsOptionToken(a[k + 1])

\* -i, -l, -v and their clusters; the three long options and their unique
\* prefixes.
RecognizedFlag(t) ==
    IF t[2] = "-"
    THEN LET name == SubSeq(t, 3, Len(t))
         IN  \/ name \in LongOptions
             \/ Cardinality({o \in LongOptions : StartsWith(o, name)}) = 1
    ELSE \A i \in 2..Len(t) : t[i] \in {"i", "l", "v"}

\* Malformed arguments: an unrecognized flag, or fewer than a pattern plus
\* one file.
ArgsMalformed ==
    LET k == LeadingOptions(argv)
    IN  \/ \E i \in 1..k : ~RecognizedFlag(argv[i])
        \/ Len(argv) - k < 2

\* Well-formed arguments whose pattern has invalid syntax.
PatternInvalid ==
    /\ ~ArgsMalformed
    /\ re_compile_raises(argv[LeadingOptions(argv) + 1])

ListMode ==
    \E i \in 1..LeadingOptions(argv) :
        \/ argv[i] = <<"-", "-">> \o LongFilesWithMatches
        \/ argv[i][2] # "-" /\ \E j \in 2..Len(argv[i]) : argv[i][j] = "l"

IsFileRecord(r) == DOMAIN r = {"depotFile"}
IsLineRecord(r) == DOMAIN r = {"lower", "upper", "data"}

\* A stream of blocks: a boundary record followed by line records, repeated.
WellFormedStream(s) ==
    /\ \A i \in 1..Len(s) : IsFileRecord(s[i]) \/ IsLineRecord(s[i])
    /\ s # <<>> => IsFileRecord(s[1])

WellFormed == \A k \in 1..Len(streams) : WellFormedStream(streams[k])

SomeMalformed ==
    \E k \in 1..Len(streams) : \E i \in 1..Len(streams[k]) :
        ~IsFileRecord(streams[k][i]) /\ ~IsLineRecord(streams[k][i])

RECURSIVE Flatten(_)
Flatten(ss) == IF ss = <<>> THEN <<>> ELSE Head(ss) \o Flatten(Tail(ss))

\* The run went through every file argument and returned.
RunCompleted ==
    /\ pc = "exited"
    /\ regexp # PyNone
    /\ failedAt = 0
    /\ exit_status = 0

\* A line record satisfies the effective predicate.
Selected(r) == re_matches(r.data)

\* The set S of numbers as an ascending sequence.
RECURSIVE Ascending(_)
Ascending(S) ==
    IF S = {} THEN <<>>
    ELSE LET m == CHOOSE x \in S : \A y \in S : x <= y
         IN  <<m>> \o Ascending(S \ {m})

\* The text of a range given as two numbers.
RangeText(a, b) ==
    IF a = b THEN <<"#">> \o Decimal(a)
    ELSE <<"#">> \o Decimal(a) \o <<",">> \o Decimal(b)

LargestLineRev ==
    CHOOSE m \in {ParseDecimal(r[2], 0) : r \in LineRanges} :
        \A r \in LineRanges : ParseDecimal(r[2], 0) <= m

\* The blocks of a well-formed record sequence: for each boundary record,
\* the index of the boundary and the indices of its line records.
BlockStarts(flat) == Ascending({i \in 1..Len(flat) : IsFileRecord(flat[i])})

BlockLines(flat, b) ==
    {i \in (b + 1)..Len(flat) :
        /\ IsLineRecord(flat[i])
        /\ \A j \in (b + 1)..i : ~IsFileRecord(flat[j])}

\* The lines list mode owes for the block of the boundary at index b of one
\* stream: one per maximal run of the revisions its selected lines cover.
BlockOutput(s, b) ==
    LET covered == {p \in 0..LargestLineRev :
                      \E i \in BlockLines(s, b) :
                          /\ Selected(s[i])
                          /\ ParseDecimal(s[i].lower, 0) <= p
                          /\ p <= ParseDecimal(s[i].upper, 0)}
        lows == Ascending({p \in covered : p - 1 \notin covered})
        high(a) == CHOOSE q \in covered :
                      /\ a <= q
                      /\ \A x \in a..q : x \in covered
                      /\ q + 1 \notin covered
    IN  [k \in 1..Len(lows) |->
            strip_revision_specifiers(s[b].depotFile)
            \o RangeText(lows[k], high(lows[k])) \o <<"\n">>]

RECURSIVE StreamOutput(_, _)
StreamOutput(s, starts) ==
    IF starts = <<>> THEN <<>>
    ELSE BlockOutput(s, Head(starts)) \o StreamOutput(s, Tail(starts))

RECURSIVE ListOutput(_)
ListOutput(ss) ==
    IF ss = <<>> THEN <<>>
    ELSE StreamOutput(Head(ss), BlockStarts(Head(ss))) \o ListOutput(Tail(ss))

\* The same, for the blocks whose canonical path is p only.
RECURSIVE StreamOutputOf(_, _, _)
StreamOutputOf(s, starts, p) ==
    IF starts = <<>> THEN <<>>
    ELSE (IF strip_revision_specifiers(s[Head(starts)].depotFile) = p
          THEN BlockOutput(s, Head(starts)) ELSE <<>>)
         \o StreamOutputOf(s, Tail(starts), p)

RECURSIVE ListOutputOf(_, _)
ListOutputOf(ss, p) ==
    IF ss = <<>> THEN <<>>
    ELSE StreamOutputOf(Head(ss), BlockStarts(Head(ss)), p) \o ListOutputOf(Tail(ss), p)

CanonicalPaths == {strip_revision_specifiers(d) : d \in DepotFiles}

LinesBearing(out, p) ==
    LET Bears(l) == StartsWith(l, p \o <<"#">>)
    IN  SelectSeq(out, Bears)

\* The lines print mode owes for a well-formed record sequence.
PrintOutput(flat) ==
    LET sel == Ascending({i \in 1..Len(flat) : IsLineRecord(flat[i]) /\ Selected(flat[i])})
        boundary(i) == CHOOSE b \in 1..i :
                          /\ IsFileRecord(flat[b])
                          /\ \A j \in (b + 1)..i : ~IsFileRecord(flat[j])
        range(r) == IF r.lower = r.upper THEN <<"#">> \o r.lower
                    ELSE <<"#">> \o r.lower \o <<",">> \o r.upper
    IN  [k \in 1..Len(sel) |->
            strip_revision_specifiers(flat[boundary(sel[k])].depotFile)
            \o range(flat[sel[k]]) \o <<":", " ">> \o flat[sel[k]].data]

InStderr(tag) == \E i \in 1..Len(stderr) : stderr[i] = tag

----------------------------------------------------------------------------
(* Properties of a run *)

\* C1: in list-files mode, over well-formed streams, the output of a
\* completed run is exactly the concatenation, in input order, of one block
\* of lines per file that had a matching line, each block emitted once.
C1_ListOutputOncePerFile ==
    (RunCompleted /\ just_list_filenames /\ WellFormed) => stdout = ListOutput(streams)

\* C4: in list-files mode the lines emitted for a file are exactly one line
\* per covering range of the selected line records between that file's
\* boundary and the next boundary or end-of-stream, and of no other file's.
C4_LinesPerFile ==
    (RunCompleted /\ just_list_filenames /\ WellFormed) =>
        \A p \in CanonicalPaths : LinesBearing(stdout, p) = ListOutputOf(streams, p)

\* C5: in print mode, over well-formed streams, the output after any number
\* of records is one line '<strippedPath><formattedRange>: <text>' per
\* selected line record read so far, in stream order, with the path of the
\* most recent preceding boundary record; other records write nothing.
C5_PrintOutput ==
    (~ListMode /\ WellFormed) => stdout = PrintOutput(Flatten(streams))

\* A completed print-mode run over a file whose raw path carries a revision
\* specifier, with one selected line, written, and one line not selected.
C5_Witness ==
    /\ ~ListMode
    /\ WellFormed
    /\ RunCompleted
    /\ Len(stdout) = 1
    /\ StartsWith(stdout[1], <<"/", "/", "y", "#", "4", ",", "5", ":">>)
    /\ \E i \in 1..Len(streams[1]) :
          IsLineRecord(streams[1][i]) /\ ~Selected(streams[1][i])

\* C6: a run with malformed arguments ends with a non-zero exit status (the
\* status of a successful run without matches is 0).
C6_UsageExitStatus ==
    (pc = "exited" /\ ArgsMalformed /\ InStderr("Usage")) => exit_status # 0

\* C7: after a malformed record the run does not crash and the remaining
\* file arguments are still scanned.
C7_MalformedRecordContained ==
    (pc = "exited" /\ SomeMalformed) =>
        /\ ~InStderr("Traceback")
        /\ Len(streams) = Len(files)

\* C8: once the annotate fetch of the k-th file argument has failed, the run
\* is raising or has exited, no later file argument is taken, the exit
\* status is non-zero, and standard output stays as it was.
C8_FetchFailureHalts ==
    /\ [](failedAt # 0 =>
            /\ pc \in {"raised", "exited"}
            /\ fidx = failedAt
            /\ Len(streams) = failedAt - 1
            /\ pc = "exited" => exit_status > 0)
    /\ [][failedAt' # 0 => stdout' = stdout]_vars

\* A run that wrote output for the first file and failed to fetch the second.
C8_Witness ==
    /\ failedAt = 2
    /\ pc = "exited"
    /\ stdout # <<>>

\* C9: with a pattern of invalid syntax no annotate fetch is issued and no
\* output line is written, and the run ends by the pattern error, not by
\* returning.
C9_PatternErrorBeforeScan ==
    PatternInvalid =>
        /\ fidx = 0
        /\ streams = <<>>
        /\ stdout = <<>>
        /\ pc \in {"main", "run", "compile", "raised", "exited"}
        /\ (pc = "exited" /\ ~InStderr("P4Exception")) =>
              /\ exc = "re.error"
              /\ exit_status > 0

\* A run with two file arguments that the pattern error ended.
C9_Witness ==
    /\ PatternInvalid
    /\ pc = "exited"
    /\ exc = "re.error"
    /\ Len(files) = 2

\* C10: with fewer than two positional arguments or an unrecognized flag no
\* annotate fetch is issued, the pattern is not compiled, nothing is written
\* to standard output, and the run ends with the usage diagnostic.
C10_UsageBeforeScan ==
    ArgsMalformed =>
        /\ fidx = 0
        /\ streams = <<>>
        /\ regexp = PyNone
        /\ stdout = <<>>
        /\ pc \in {"main", "run", "raised", "exited"}
        /\ (pc = "exited" /\ ~InStderr("P4Exception")) => InStderr("Usage")

\* A run with an unrecognized flag before a pattern and a file, ended by the
\* usage diagnostic.
C10_Witness ==
    /\ pc = "exited"
    /\ stderr = <<"Usage", "GetoptError">>
    /\ Len(argv) >= 3

\* The inversion and case flags as the command line gives them.
InvertFlag ==
    \E i \in 1..LeadingOptions(argv) :
        \/ argv[i][2] = "-" /\ StartsWith(LongInvertMatch, SubSeq(argv[i], 3, Len(argv[i])))
        \/ argv[i][2] # "-" /\ \E j \in 2..Len(argv[i]) : argv[i][j] = "v"

IgnoreCaseFlag ==
    \E i \in 1..LeadingOptions(argv) :
        \/ argv[i][2] = "-" /\ StartsWith(LongIgnoreCase, SubSeq(argv[i], 3, Len(argv[i])))
        \/ argv[i][2] # "-" /\ \E j \in 2..Len(argv[i]) : argv[i][j] = "i"

\* The raw match of the command line's pattern on a text.
RawMatch(data) ==
    LET pat == Fold(argv[LeadingOptions(argv) + 1], IgnoreCaseFlag)
        txt == Fold(data, IgnoreCaseFlag)
    IN  \E i \in 1..(Len(txt) - Len(pat) + 1) : SubSeq(txt, i, i + Len(pat) - 1) = pat

\* This step takes the line record r from the current stream.
TakesRecord(r) ==
    /\ pc = "scan"
    /\ streams' = [streams EXCEPT ![fidx] = Append(@, r)]

\* This step emits a line (print mode) or accumulates a range (list mode).
SelectsNow == Len(stdout') = Len(stdout) + 1 \/ Len(match_ranges') = Len(match_ranges) + 1

\* C14: with the inversion flag set a line record is selected (emitted in
\* print mode, accumulated in list mode) iff the raw pattern match on its
\* text fails, and with the flag clear iff the raw match succeeds.
C14_InversionSelects ==
    [][\A r \in LineRecords :
          TakesRecord(r) =>
              /\ InvertFlag => (SelectsNow <=> ~RawMatch(r.data))
              /\ ~InvertFlag => (SelectsNow <=> RawMatch(r.data))
              /\ SelectsNow \/ (stdout' = stdout /\ match_ranges' = match_ranges)]_vars

\* An inverted print-mode run has emitted a line whose text the raw pattern
\* does not match and has suppressed a line whose text it matches.
C14_Witness ==
    /\ InvertFlag
    /\ ~ListMode
    /\ Len(stdout) = 1
    /\ WellFormed
    /\ \E i, j \in 1..Len(streams[1]) :
          /\ IsLineRecord(streams[1][i])
          /\ IsLineRecord(streams[1][j])
          /\ ~RawMatch(streams[1][i].data)
          /\ RawMatch(streams[1][j].data)

\* A canonical path none of whose blocks, in any stream, has a selected line.
ZeroMatch(p) ==
    \A k \in 1..Len(streams) : \A b \in 1..Len(streams[k]) :
        (IsFileRecord(streams[k][b])
           /\ strip_revision_specifiers(streams[k][b].depotFile) = p)
        => \A i \in BlockLines(streams[k], b) : ~Selected(streams[k][i])

\* C15: in list-files mode a file none of whose line records satisfies the
\* effective predicate produces no output line bearing its path.
C15_ZeroMatchFileSilent ==
    (ListMode /\ ~SomeMalformed) =>
        \A p \in CanonicalPaths : ZeroMatch(p) => LinesBearing(stdout, p) = <<>>

\* C16: the coalescer is never called with an empty sequence: got_match is
\* true iff match_ranges is non-empty, so no flush raises.
C16_CoalescerInputNonEmpty ==
    /\ got_match <=> match_ranges # <<>>
    /\ ~FlushRaises
    /\ exc # "TypeError"

\* A list-mode run has flushed a file's ranges through the coalescer at the
\* end of a stream.
C16_Witness ==
    /\ ListMode
    /\ pc = "loop"
    /\ got_match
    /\ match_ranges # <<>>
    /\ stdout # <<>>

\* This step takes a boundary record; this step ends the current stream.
TakesBoundary == \E r \in FileRecords : TakesRecord(r)
EndsStream == pc = "scan" /\ pc' # "scan" /\ streams' = streams

\* C17: in list-files mode a line record writes nothing and only appends to
\* the accumulator, and output is written only on a boundary record or at
\* end-of-stream; in print mode a boundary record and end-of-stream write
\* nothing and line records never modify got_match or match_ranges.
C17_OutputTransitions ==
    [][/\ ListMode =>
             /\ \A r \in LineRecords :
                   TakesRecord(r) =>
                       /\ stdout' = stdout
                       /\ path' = path
                       /\ \/ got_match' = got_match /\ match_ranges' = match_ranges
                          \/ /\ got_match'
                             /\ match_ranges' =
                                  Append(match_ranges, <<PyStr(r.lower), PyStr(r.upper)>>)
             /\ stdout' # stdout => (TakesBoundary \/ EndsStream)
       /\ ~ListMode =>
             /\ (TakesBoundary \/ EndsStream) => stdout' = stdout
             /\ \A r \in LineRecords :
                   TakesRecord(r) =>
                       got_match' = got_match /\ match_ranges' = match_ranges]_vars

\* A list-mode scan has accumulated a selected line and written nothing.
C17_Witness ==
    /\ ListMode
    /\ pc = "scan"
    /\ got_match
    /\ Len(match_ranges) = 1
    /\ stdout = <<>>

\* The current stream has shown no boundary record so far.
NoBoundaryYet == \A i \in 1..Len(streams[fidx]) : ~IsFileRecord(streams[fidx][i])

\* C18: a line record taken before any boundary record of its stream
\* produces no output and is accumulated for no file, and every output line
\* carries the canonical path of a boundary record of the run.
C18_StrayLineIgnored ==
    /\ [][\A r \in LineRecords :
             (TakesRecord(r) /\ NoBoundaryYet) =>
                 /\ stdout' = stdout
                 /\ match_ranges' = match_ranges
                 /\ got_match' = got_match]_vars
    /\ [](\A n \in 1..Len(stdout) :
             \E k \in 1..Len(streams) : \E b \in 1..Len(streams[k]) :
                 /\ IsFileRecord(streams[k][b])
                 /\ StartsWith(stdout[n],
                               strip_revision_specifiers(streams[k][b].depotFile)
                               \o <<"#">>))

\* C19: the fetch of the next file argument is issued only from the loop
\* head, after the previous stream was ended by its end-of-stream flush;
\* records are taken one at a time at the end of the current stream and
\* earlier streams never change; a run that returns has taken every file
\* argument's stream; and every run reaches its terminal state.
C19_SerialTerminates ==
    /\ [][Len(streams') # Len(streams) =>
             /\ pc = "loop"
             /\ pc' = "scan"
             /\ fidx' = fidx + 1
             /\ streams' = Append(streams, <<>>)]_vars
    /\ [][(streams' # streams /\ Len(streams') = Len(streams)) =>
             /\ pc = "scan"
             /\ fidx = Len(streams)
             /\ \E r \in AnnotateRecords :
                   streams' = [streams EXCEPT ![fidx] = Append(@, r)]]_vars
    /\ [][(pc # "loop" /\ pc' = "loop" /\ fidx >= 1) =>
             /\ pc = "scan"
             /\ EndsStream
             /\ fidx' = fidx]_vars
    /\ [](RunCompleted => (fidx = Len(files) /\ Len(streams) = Len(files)))
    /\ [][pc = "exited" => pc' = "exited" /\ stdout' = stdout /\ streams' = streams]_vars
    /\ <>(pc = "exited")
    /\ (pc = "loop" /\ failedAt = 0 /\ ~SomeMalformed) ~>
          (RunCompleted \/ failedAt # 0 \/ SomeMalformed)

\* A run over two file arguments, each with records, has returned.
C19_Witness ==
    /\ RunCompleted
    /\ Len(files) = 2
    /\ Len(streams) = 2
    /\ streams[1] # <<>>
    /\ streams[2] # <<>>

\* The reference: the ranges sorted by lower, then overlapping or adjacent
\* neighbours merged.
RECURSIVE SortByLower(_)
SortByLower(num) ==
    IF num = <<>> THEN <<>>
    ELSE LET k == CHOOSE i \in 1..Len(num) :
                     \A j \in 1..Len(num) :
                         num[i][1] < num[j][1] \/ (num[i][1] = num[j][1] /\ i <= j)
             rest == [i \in 1..(Len(num) - 1) |-> IF i < k THEN num[i] ELSE num[i + 1]]
         IN  <<num[k]>> \o SortByLower(rest)

RECURSIVE MergeSorted(_, _)
MergeSorted(sorted, acc) ==
    IF sorted = <<>> THEN acc
    ELSE LET r == Head(sorted)
             last == acc[Len(acc)]
         IN  IF acc # <<>> /\ r[1] <= last[2] + 1
             THEN MergeSorted(Tail(sorted),
                              [acc EXCEPT ![Len(acc)] =
                                  <<last[1], IF r[2] > last[2] THEN r[2] ELSE last[2]>>])
             ELSE MergeSorted(Tail(sorted), Append(acc, r))

SortMerge(num) == MergeSorted(SortByLower(num), <<>>)

\* C20: for ranges whose revisions are all >= 1, given as ints or as decimal
\* strings, in any order, the bitmap scan returns exactly the integer pairs
\* of the sort-and-merge reference.
C20_EqualsSortMerge ==
    (c_done /\ \A k \in 1..Len(c_num) : c_num[k][1] >= 1) =>
        c_out = PyRanges(SortMerge(c_num), "int")

\* A call on two overlapping ranges given out of order as decimal strings.
C20_Witness ==
    /\ c_done
    /\ c_repr = "str"
    /\ Len(c_num) = 2
    /\ c_num[2][1] >= 1
    /\ c_num[2][1] < c_num[1][1]
    /\ c_num[1][1] <= c_num[2][2]
    /\ c_num[2][2] < c_num[1][2]
    /\ Len(c_out) = 1

----------------------------------------------------------------------------
(* Properties of a formatter call and of a path-stripping call *)

\* C12: canonicalize_revision_range returns '#lower' exactly when lower
\* equals upper and '#lower,upper' otherwise, for pairs of ints and for pairs
\* of decimal strings; (5,5) gives '#5' and (3,7) gives '#3,7'.
C12_FormatRange ==
    /\ f_out # PyNone =>
          /\ f_out.v = RangeText(f_in[1], f_in[2])
          /\ (Count(f_out.v, ",") = 0) <=> (f_in[1] = f_in[2])
    /\ \A repr \in {"int", "str"} :
          /\ canonicalize_revision_range(AsPy(5, repr), AsPy(5, repr)) = <<"#", "5">>
          /\ canonicalize_revision_range(AsPy(3, repr), AsPy(7, repr))
               = <<"#", "3", ",", "7">>
          /\ canonicalize_revision_range(AsPy(10, repr), AsPy(12, repr))
               = <<"#", "1", "0", ",", "1", "2">>

\* A call on a two-digit single revision given as decimal strings.
C12_Witness ==
    /\ f_out # PyNone
    /\ f_in[3] = "str"
    /\ f_in[1] = f_in[2]
    /\ f_in[1] >= 10

DepotFTxt == <<"/", "/", "d", "e", "p", "o", "t", "/", "f", ".", "t", "x", "t">>

\* C13: strip_revision_specifiers returns the prefix before the rightmost
\* '@' when there is one, otherwise the prefix before the rightmost '#' when
\* there is one, otherwise the path; the result is always a prefix of the
\* path.
C13_StripSpecifiers ==
    /\ s_out # PyNone =>
          LET ats == {i \in 1..Len(s_in) : s_in[i] = "@"}
              hashes == {i \in 1..Len(s_in) : s_in[i] = "#"}
              last(S) == CHOOSE i \in S : \A j \in S : j <= i
          IN  /\ ats # {} => s_out.v = SubSeq(s_in, 1, last(ats) - 1)
              /\ (ats = {} /\ hashes # {}) => s_out.v = SubSeq(s_in, 1, last(hashes) - 1)
              /\ (ats = {} /\ hashes = {}) => s_out.v = s_in
              /\ StartsWith(s_in, s_out.v)
    /\ strip_revision_specifiers(DepotFTxt \o <<"@", "r", "e", "l", "e", "a", "s", "e">>)
         = DepotFTxt
    /\ strip_revision_specifiers(DepotFTxt \o <<"#", "1", "2">>) = DepotFTxt
    /\ strip_revision_specifiers(DepotFTxt) = DepotFTxt

\* A call on a path with two '@' and a '#'.
C13_Witness ==
    /\ s_out # PyNone
    /\ Count(s_in, "@") = 2
    /\ Count(s_in, "#") = 1
    /\ Len(s_out.v) = 2

====
